---- MODULE Spec2Model ----
(***************************************************************************)
(* justfishin.py: narrowing a listing of S3 keys by substring filters,     *)
(* confirming and downloading the single remaining key, and the path       *)
(* check that guards the extraction of the downloaded tar archive.         *)
(*                                                                         *)
(* Strings are sequences of one-character strings, so that substring and   *)
(* prefix are computed character by character.  An S3 key is represented   *)
(* by its name, the only attribute the filters read.                       *)
(*                                                                         *)
(* The file is modelled as Python 3 runs it: the keyword-only marker in    *)
(* the signature of safe_extract (line 95) is a syntax error to Python 2,  *)
(* which therefore runs nothing of the file.  Python 3 has no raw_input:   *)
(* the name is bound nowhere in the file, and evaluating it at lines 116   *)
(* and 121 raises NameError, which nothing catches.                        *)
(*                                                                         *)
(* Three specifications share the module:                                  *)
(*   SpecFilter   apply_filters as a pure function of its two arguments;   *)
(*   SpecLoop     loop(bucket, filters), one action per program position;  *)
(*   SpecExtract  safe_extract over the members of one archive.            *)
(* SpecLoopLive is SpecLoop with the interpreter going on to the next      *)
(* statement for as long as there is one.                                  *)
(***************************************************************************)
EXTENDS Integers, Sequences, FiniteSets

VARIABLES
    \* apply_filters called on its own
    in_contents,   \* argument contents
    in_filters,    \* argument filters
    result,        \* list(apply_filters(in_contents, in_filters))
    result2,       \* list(apply_filters(result, in_filters))
    fpc,           \* "call", "applied", "reapplied" ("idle" elsewhere)
    \* loop(bucket, filters)
    bucket,        \* the keys the bucket lists
    filters,       \* the filters given on the command line
    contents,      \* the local variable contents of loop
    pc,            \* "top", "filter" (line 121), "confirm" (line 116),
                   \* "raised" (left by NameError); "idle" elsewhere.
                   \* "done" stands for leaving by the break of line 119,
                   \* which no step reaches
    downloaded,    \* the arguments of the calls of download_key, in order
    \* safe_extract(tar_file)
    cwd,           \* the process's working directory
    members,       \* tar.getmembers(), by name
    idx,           \* position of the for loop
    xpc,           \* "check", "raised" (path traversal), "done" (extractall
                   \* returned), "oserror" (extractall raised); "idle"
                   \* elsewhere
    extracted      \* the members handed to tarfile for extraction, in order

filterVars == <<in_contents, in_filters, result, result2, fpc>>
loopVars == <<bucket, filters, contents, pc, downloaded>>
extractVars == <<cwd, members, idx, xpc, extracted>>
vars == <<filterVars, loopVars, extractVars>>

-----------------------------------------------------------------------------
(* Bounds of the enumerated inputs.                                        *)

\* longest key name or filter string
MaxName == 2
\* most items and filters, together, in one call of apply_filters on its own
MaxArgs == 3
\* most keys in the bucket and filters on the command line, together
MaxInputs == 3
\* most characters in the member names of an archive, together
MaxArchive == 5

Alphabet == {"a", "b"}

StrsOver(A, lo, hi) == UNION {[1..k -> A] : k \in lo..hi}

SeqsUpTo(S, n) == UNION {[1..k -> S] : k \in 0..n}

\* filter strings: any line, the empty one included
Strs == StrsOver(Alphabet, 0, MaxName)

\* key names: S3 keys are at least one character long
Names == StrsOver(Alphabet, 1, MaxName)

-----------------------------------------------------------------------------
(* apply_filters                                                           *)

\* Python's `sub in s` on strings
In(sub, s) ==
    \E i \in 0..(Len(s) - Len(sub)) : SubSeq(s, i + 1, i + Len(sub)) = sub

\* the inner for loop from filter k on: the value of yld after it
RECURSIVE Yld(_, _, _)
Yld(item, fils, k) ==
    IF k > Len(fils) THEN TRUE
    ELSE IF ~In(fils[k], item) THEN FALSE
    ELSE Yld(item, fils, k + 1)

\* the outer for loop from item i on: the items yielded
RECURSIVE ApplyFrom(_, _, _)
ApplyFrom(cs, fils, i) ==
    IF i > Len(cs) THEN <<>>
    ELSE IF Yld(cs[i], fils, 1)
         THEN <<cs[i]>> \o ApplyFrom(cs, fils, i + 1)
         ELSE ApplyFrom(cs, fils, i + 1)

\* some filter has to match (yld starts False and is set on a match)
RECURSIVE ApplyAnyFrom(_, _, _)
ApplyAnyFrom(cs, fils, i) ==
    IF i > Len(cs) THEN <<>>
    ELSE IF \E k \in 1..Len(fils) : In(fils[k], cs[i])
         THEN <<cs[i]>> \o ApplyAnyFrom(cs, fils, i + 1)
         ELSE ApplyAnyFrom(cs, fils, i + 1)

apply_filters_any(cs, fils) == ApplyAnyFrom(cs, fils, 1)

\* the first item that passes is consumed without being yielded
RECURSIVE ApplySkipFrom(_, _, _)
ApplySkipFrom(cs, fils, i) ==
    IF i > Len(cs) THEN <<>>
    ELSE IF Yld(cs[i], fils, 1)
         THEN ApplyFrom(cs, fils, i + 1)
         ELSE ApplySkipFrom(cs, fils, i + 1)

apply_filters_skip(cs, fils) == ApplySkipFrom(cs, fils, 1)

apply_filters(cs, fils) == ApplyFrom(cs, fils, 1)

InitFilter ==
    /\ in_contents \in SeqsUpTo(Strs, MaxArgs)
    /\ in_filters \in SeqsUpTo(Strs, MaxArgs - Len(in_contents))
    /\ result = <<>>
    /\ result2 = <<>>
    /\ fpc = "call"
    /\ bucket = <<>> /\ filters = <<>> /\ contents = <<>> /\ pc = "idle"
    /\ downloaded = <<>>
    /\ cwd = <<"/">> /\ members = <<>> /\ idx = 1 /\ xpc = "idle"
    /\ extracted = <<>>

\* list(apply_filters(in_contents, in_filters))
Apply ==
    /\ fpc = "call"
    /\ result' = apply_filters(in_contents, in_filters)
    /\ fpc' = "applied"
    /\ UNCHANGED <<in_contents, in_filters, result2, loopVars, extractVars>>

\* list(apply_filters(result, in_filters))
Reapply ==
    /\ fpc = "applied"
    /\ result2' = apply_filters(result, in_filters)
    /\ fpc' = "reapplied"
    /\ UNCHANGED <<in_contents, in_filters, result, loopVars, extractVars>>

NextFilter == Apply \/ Reapply

SpecFilter == InitFilter /\ [][NextFilter]_vars


-----------------------------------------------------------------------------
(* loop                                                                    *)

CharRank(c) == IF c = "a" THEN 1 ELSE 2

\* s sorts strictly before t, character by character
RECURSIVE LexLess(_, _)
LexLess(s, t) ==
    IF t = <<>> THEN FALSE
    ELSE IF s = <<>> THEN TRUE
    ELSE IF s[1] # t[1] THEN CharRank(s[1]) < CharRank(t[1])
    ELSE LexLess(Tail(s), Tail(t))

\* iterating a bucket lists its keys, which have distinct names, in
\* ascending order of name
Buckets == {b \in SeqsUpTo(Names, MaxInputs) :
              \A i \in 1..(Len(b) - 1) : LexLess(b[i], b[i + 1])}

\* the startup filters are not applied
InitLoopUnfiltered ==
    /\ bucket \in Buckets
    /\ filters \in SeqsUpTo(Strs, MaxInputs - Len(bucket))
    /\ contents = bucket
    /\ pc = "top"
    /\ downloaded = <<>>
    /\ in_contents = <<>> /\ in_filters = <<>> /\ result = <<>>
    /\ result2 = <<>> /\ fpc = "idle"
    /\ cwd = <<"/">> /\ members = <<>> /\ idx = 1 /\ xpc = "idle"
    /\ extracted = <<>>

InitLoop ==
    /\ bucket \in Buckets
    /\ filters \in SeqsUpTo(Strs, MaxInputs - Len(bucket))
    /\ contents = apply_filters(bucket, filters)
    /\ pc = "top"
    /\ downloaded = <<>>
    /\ in_contents = <<>> /\ in_filters = <<>> /\ result = <<>>
    /\ result2 = <<>> /\ fpc = "idle"
    /\ cwd = <<"/">> /\ members = <<>> /\ idx = 1 /\ xpc = "idle"
    /\ extracted = <<>>

\* top of the while loop: the summary is printed and the branch on
\* len(contents) == 1 is taken, up to the statement that names raw_input
Display ==
    /\ pc = "top"
    /\ pc' = IF Len(contents) = 1 THEN "confirm" ELSE "filter"
    /\ UNCHANGED <<bucket, filters, contents, downloaded,
                   filterVars, extractVars>>

\* line 116: the name raw_input is unbound, NameError leaves loop; no answer
\* is read, download_key is not called and break is not reached
Confirm ==
    /\ pc = "confirm"
    /\ pc' = "raised"
    /\ UNCHANGED <<bucket, filters, contents, downloaded,
                   filterVars, extractVars>>

\* line 121: the name raw_input is unbound, NameError leaves loop; no line
\* is read and contents is left as it was
Filter ==
    /\ pc = "filter"
    /\ pc' = "raised"
    /\ UNCHANGED <<bucket, filters, contents, downloaded,
                   filterVars, extractVars>>

NextLoop == Display \/ Confirm \/ Filter

SpecLoop == InitLoop /\ [][NextLoop]_vars

\* the interpreter executes the next statement as long as there is one
SpecLoopLive == SpecLoop /\ WF_vars(NextLoop)

-----------------------------------------------------------------------------
(* safe_extract                                                            *)

PathAlphabet == {"/", ".", "d"}

\* working directories the script may be started in
Cwds == {<<"/", "d">>, <<"/", "d", "/", "d">>}

\* the archives whose member names hold at most n characters together
RECURSIVE Archives(_)
Archives(n) ==
    {<<>>} \cup
    UNION {{<<name>> \o rest : name \in StrsOver(PathAlphabet, k, k),
                               rest \in Archives(n - k)} : k \in 1..n}

\* the default of the parameter path
path == <<".">>

StartsWith(s, p) == Len(s) >= Len(p) /\ SubSeq(s, 1, Len(p)) = p

\* os.path.join(a, p)
join(a, p) ==
    IF StartsWith(p, <<"/">>) THEN p
    ELSE IF a = <<>> \/ a[Len(a)] = "/" THEN a \o p
    ELSE a \o <<"/">> \o p

\* s.split('/') from position i on, cur being the component under way
RECURSIVE Split(_, _, _)
Split(s, i, cur) ==
    IF i > Len(s) THEN <<cur>>
    ELSE IF s[i] = "/" THEN <<cur>> \o Split(s, i + 1, <<>>)
    ELSE Split(s, i + 1, Append(cur, s[i]))

\* the loop of os.path.normpath over the components from i on
RECURSIVE NormComps(_, _, _, _)
NormComps(comps, i, new_comps, initial_slashes) ==
    IF i > Len(comps) THEN new_comps
    ELSE LET comp == comps[i] IN
         IF comp = <<>> \/ comp = <<".">>
         THEN NormComps(comps, i + 1, new_comps, initial_slashes)
         ELSE IF \/ comp # <<".", ".">>
                 \/ (initial_slashes = 0 /\ new_comps = <<>>)
                 \/ (new_comps # <<>>
                     /\ new_comps[Len(new_comps)] = <<".", ".">>)
         THEN NormComps(comps, i + 1, Append(new_comps, comp),
                        initial_slashes)
         ELSE IF new_comps # <<>>
         THEN NormComps(comps, i + 1,
                        SubSeq(new_comps, 1, Len(new_comps) - 1),
                        initial_slashes)
         ELSE NormComps(comps, i + 1, new_comps, initial_slashes)

\* '/'.join(comps)
RECURSIVE JoinSlash(_)
JoinSlash(comps) ==
    IF comps = <<>> THEN <<>>
    ELSE IF Len(comps) = 1 THEN comps[1]
    ELSE comps[1] \o <<"/">> \o JoinSlash(Tail(comps))

\* os.path.normpath(p)
normpath(p) ==
    IF p = <<>> THEN <<".">>
    ELSE LET initial_slashes ==
                 IF ~StartsWith(p, <<"/">>) THEN 0
                 ELSE IF StartsWith(p, <<"/", "/">>)
                         /\ ~StartsWith(p, <<"/", "/", "/">>) THEN 2
                 ELSE 1
             joined == JoinSlash(NormComps(Split(p, 1, <<>>), 1, <<>>,
                                           initial_slashes))
             out == [i \in 1..initial_slashes |-> "/"] \o joined
         IN IF out = <<>> THEN <<".">> ELSE out

\* os.path.abspath(p), in the working directory cwd
abspath(p) ==
    IF StartsWith(p, <<"/">>) THEN normpath(p) ELSE normpath(join(cwd, p))

\* os.path.commonprefix([s, t]): the longest common leading substring
commonprefix(s, t) ==
    LET n == IF Len(s) < Len(t) THEN Len(s) ELSE Len(t)
        k == CHOOSE k \in 0..n :
                 /\ SubSeq(s, 1, k) = SubSeq(t, 1, k)
                 /\ (k < n => s[k + 1] # t[k + 1])
    IN SubSeq(s, 1, k)

is_within_directory(directory, target) ==
    LET abs_directory == abspath(directory)
        abs_target == abspath(target)
        prefix == commonprefix(abs_directory, abs_target)
    IN prefix = abs_directory

InitExtract ==
    /\ cwd \in Cwds
    /\ members \in Archives(MaxArchive)
    /\ idx = 1
    /\ xpc = "check"
    /\ extracted = <<>>
    /\ in_contents = <<>> /\ in_filters = <<>> /\ result = <<>>
    /\ result2 = <<>> /\ fpc = "idle"
    /\ bucket = <<>> /\ filters = <<>> /\ contents = <<>> /\ pc = "idle"
    /\ downloaded = <<>>

\* a member is handed to tarfile as soon as it has passed the check
CheckMemberEager ==
    /\ xpc = "check"
    /\ idx <= Len(members)
    /\ LET member_path == join(path, members[idx]) IN
         IF ~is_within_directory(path, member_path)
         THEN xpc' = "raised" /\ idx' = idx /\ extracted' = extracted
         ELSE /\ xpc' = xpc /\ idx' = idx + 1
              /\ extracted' = Append(extracted, members[idx])
    /\ UNCHANGED <<cwd, members, filterVars, loopVars>>

\* one iteration of the for loop over tar.getmembers()
CheckMember ==
    /\ xpc = "check"
    /\ idx <= Len(members)
    /\ LET member_path == join(path, members[idx]) IN
         IF ~is_within_directory(path, member_path)
         THEN xpc' = "raised" /\ idx' = idx
         ELSE xpc' = xpc /\ idx' = idx + 1
    /\ UNCHANGED <<cwd, members, extracted, filterVars, loopVars>>

\* the for loop is exhausted and tar.extractall(path, None) is called: every
\* member is handed to tarfile.  What tarfile then writes, and whether it
\* returns or raises OSError, depends on the kinds of the members and on
\* the files already there, which are not part of this model: either
\* outcome may follow.
extractall ==
    /\ xpc = "check"
    /\ idx > Len(members)
    /\ extracted' = members
    /\ xpc' \in {"done", "oserror"}
    /\ UNCHANGED <<cwd, members, idx, filterVars, loopVars>>

NextExtract == CheckMember \/ extractall

SpecExtract == InitExtract /\ [][NextExtract]_vars

-----------------------------------------------------------------------------
(* Properties                                                              *)

\* f occurs in name: the Len(f) characters of name from some position i on
\* are those of f
HasSubstring(name, f) ==
    \E i \in 1..(Len(name) - Len(f) + 1) :
        \A j \in 1..Len(f) : name[i + j - 1] = f[j]

\* the items of S, in S's order, whose name holds every string of F
Matching(S, F) ==
    SelectSeq(S, LAMBDA item : \A k \in 1..Len(F) : HasSubstring(item, F[k]))

\* s is t with some of its elements removed
RECURSIVE IsSubsequence(_, _)
IsSubsequence(s, t) ==
    IF s = <<>> THEN TRUE
    ELSE IF t = <<>> THEN FALSE
    ELSE IF s[1] = t[1] THEN IsSubsequence(Tail(s), Tail(t))
    ELSE IsSubsequence(s, Tail(t))

\* the size of the Working Set when the loop starts
n0 == Len(Matching(bucket, filters))

\* the components of an absolute, normalized path
Components(p) == SelectSeq(Split(p, 1, <<>>), LAMBDA c : c # <<>>)

\* target is dir or lies below it, component by component
ComponentWithin(dir, target) ==
    LET d == Components(dir)
        t == Components(target)
    IN Len(t) >= Len(d) /\ SubSeq(t, 1, Len(d)) = d

\* member k of the archive passes the check of safe_extract
Passes(k) == is_within_directory(path, join(path, members[k]))

\* extractall has been entered
Extracting == xpc \in {"done", "oserror"}

\* C1: apply_filters(S, F) yields exactly the items of S whose name contains
\* every string of F, in S's order and with nothing added; for F = [] it
\* yields S unchanged.
C1_ApplyFiltersExact ==
    fpc \in {"applied", "reapplied"} =>
        /\ result = Matching(in_contents, in_filters)
        /\ (in_filters = <<>> => result = in_contents)

\* an item that holds the first of two filters and not the second is dropped
C1_Witness ==
    /\ fpc = "applied"
    /\ Len(in_filters) = 2
    /\ Len(in_contents) = 1
    /\ in_filters[1] # <<>>
    /\ HasSubstring(in_contents[1], in_filters[1])
    /\ ~HasSubstring(in_contents[1], in_filters[2])
    /\ result = <<>>

\* C2: in every state of the interactive loop, whatever the bucket lists and
\* whatever the startup and entered filters are, the Working Set holds at
\* least one item.
C2_NeverEmpty == pc # "idle" => Len(contents) >= 1

\* C3: a narrowing step replaces the Working Set by the candidate (its items
\* that contain the new filter) when the candidate is not empty, and leaves
\* it as it was, the loop going on to prompt, when it is; the size of the
\* Working Set never grows.
C3_NarrowingStep ==
    [][pc = "filter" =>
         /\ \E f \in Strs :
              LET candidate == Matching(contents, <<f>>) IN
                contents' = IF candidate = <<>> THEN contents ELSE candidate
         /\ pc' = "top"
         /\ Len(contents') <= Len(contents)]_vars

\* C4: with exactly one item left the loop asks for confirmation and then
\* ends by its break whatever the answer; download_key is called at most
\* once in a run, and only on the one item left.
C4_ConfirmOnce ==
    /\ [][pc = "top" /\ Len(contents) = 1 => pc' = "confirm"]_vars
    /\ [][pc = "confirm" => pc' = "done"]_vars
    /\ [](/\ Len(downloaded) <= 1
          /\ (downloaded # <<>> =>
                Len(contents) = 1 /\ downloaded[1] = contents[1]))

\* C5: safe_extract fails whenever some entry's absolute output path is
\* neither the destination directory nor inside it, inside meaning below it
\* component by component: such an archive never gets to extraction.
C5_RejectsOutside ==
    (\E k \in 1..Len(members) :
        ~ComponentWithin(abspath(path), abspath(join(path, members[k]))))
    => ~Extracting

\* C6: extraction is all-or-nothing: no entry is handed to extraction unless
\* every entry of the archive passes the path check, so an archive with a
\* rejected entry never has any entry written, before or after the
\* rejection.
C6_AllOrNothing ==
    /\ (Extracting \/ extracted # <<>> =>
          \A k \in 1..Len(members) : Passes(k))
    /\ (xpc = "raised" => extracted = <<>>)

\* the second of three entries is rejected, after one that passed
C6_Witness ==
    /\ xpc = "raised"
    /\ idx = 2
    /\ Len(members) = 3
    /\ Passes(1) /\ Passes(3)
    /\ extracted = <<>>

\* C7: apply_filters(apply_filters(S, F), F) = apply_filters(S, F).
C7_Idempotent == fpc = "reapplied" => result2 = result

\* the first application dropped an item and kept another
C7_Witness ==
    /\ fpc = "reapplied"
    /\ in_filters # <<>>
    /\ result # <<>>
    /\ Len(result) < Len(in_contents)

\* C8: the loop gets to the filter prompt only with two or more items in the
\* Working Set and to the confirmation prompt only with exactly one; when
\* the startup filters match nothing it gets to neither.
C8_BranchGuards ==
    /\ (pc = "filter" => Len(contents) >= 2)
    /\ (pc = "confirm" => Len(contents) = 1)
    /\ (pc # "idle" /\ n0 = 0 => pc \notin {"filter", "confirm"})

\* C9: the Working Set is always an order-preserving subsequence of the
\* bucket listing, and each of its items contains every startup filter (and
\* every entered filter accepted so far: there never is one, no line being
\* read).
C9_SubsequenceOfBucket ==
    pc # "idle" =>
        /\ IsSubsequence(contents, bucket)
        /\ \A i \in 1..Len(contents) :
             \A k \in 1..Len(filters) :
                 HasSubstring(contents[i], filters[k])

\* the loop has run its iteration on a Working Set that two startup filters
\* left, or that one startup filter took a key from
C9_Witness ==
    /\ pc = "raised"
    /\ filters # <<>>
    /\ contents # <<>>
    /\ (Len(filters) = 2 \/ Len(contents) < Len(bucket))

\* C10: from a Working Set of n >= 1 items, a narrowing step that changes
\* the Working Set makes it strictly smaller, and the loop gets to its end
\* (the break after the confirmation) unless filters that leave the Working
\* Set as it is are entered again and again.
C10_Progress ==
    /\ [][contents' # contents => Len(contents') < Len(contents)]_vars
    /\ (n0 >= 1 =>
          \/ []<><<pc = "filter" /\ contents' = contents>>_vars
          \/ <>(pc = "done"))

====
